---- MODULE Spec2Model ----
(***************************************************************************)
(* TaskIQ Auth Server (src/app.py): the OAuth callback handler, the token  *)
(* file store and the token-presence lookup, as a state machine.           *)
(*                                                                         *)
(* Strings are sequences of one-character strings.  A token file is a      *)
(* sequence of cells; a cell is the i-th block of the record that          *)
(* save_token serialises for the credentials of one exchange.              *)
(***************************************************************************)
EXTENDS Integers, Sequences, FiniteSets, TLC

VARIABLES files, now, nextTok, req, succeeded, resp, uid, savePath, getPath

vars == <<files, now, nextTok, req, succeeded, resp, uid, savePath, getPath>>

\* ------------------------------------------------------------------ bounds
MaxIdLen == 3
MaxTime == 1
MaxReqs == 2
MaxRecLen == 2

\* ----------------------------------------------------------------- strings
Chars == {"a", "@", "_", "t"}

Strings == UNION {[1..n -> Chars] : n \in 0..MaxIdLen}

AT_SIGN == "@"
AT_MARKER == <<"_", "a", "t", "_">>
JSON_EXT == <<".", "j", "s", "o", "n">>
TOKEN_STORAGE_DIR == <<".", "/", "t", "o", "k", "e", "n", "s">>

\* str.replace(old, new, 1): the first occurrence alone.
ReplaceFirst(s, old, new) ==
    IF \E i \in 1..Len(s) : s[i] = old
    THEN LET i == CHOOSE i \in 1..Len(s) : s[i] = old /\ \A j \in 1..(i - 1) : s[j] # old
         IN  SubSeq(s, 1, i - 1) \o new \o SubSeq(s, i + 1, Len(s))
    ELSE s

\* str.replace(old, new) for a one-character old: left to right, every
\* occurrence.
RECURSIVE Replace(_, _, _)
Replace(s, old, new) ==
    IF s = <<>> THEN <<>>
    ELSE (IF Head(s) = old THEN new ELSE <<Head(s)>>) \o Replace(Tail(s), old, new)

\* os.path.join(a, b): b alone when b is absolute, else a, a separator, b.
PathJoin(a, b) ==
    IF b # <<>> /\ Head(b) = "/" THEN b
    ELSE IF a # <<>> /\ a[Len(a)] = "/" THEN a \o b
    ELSE a \o <<"/">> \o b

\* The path built from the identifier as it is.
SaveTokenPathRaw(user_id) == PathJoin(TOKEN_STORAGE_DIR, user_id \o JSON_EXT)

\* token_path of save_token (line 71).
SaveTokenPath(user_id) ==
    PathJoin(TOKEN_STORAGE_DIR, Replace(user_id, AT_SIGN, AT_MARKER) \o JSON_EXT)

\* token_path of get_token (line 194).
GetTokenPath(user_id) ==
    PathJoin(TOKEN_STORAGE_DIR, Replace(user_id, AT_SIGN, AT_MARKER) \o JSON_EXT)

\* ------------------------------------------------------ inputs and values
Workers == {1, 2}

\* A query parameter that is absent (Optional[str] = None, line 100).
NONE == "<None>"

Codes == {NONE, "", "code"}
Errors == {NONE, "", "access_denied"}

\* Python truthiness of an Optional[str] (lines 102, 115).
Truthy(s) == s # NONE /\ s # ""

EmailA == <<"a", "@", "b">>
EmailC == <<"c", "@", "b">>
AliasA == <<"a", "_", "a", "t", "_", "b">>

\* What the identity endpoint may resolve to, and what /token/{user_id} may
\* be asked about.
Emails == {EmailA}
UserIds == {EmailA, EmailC, AliasA}

NoTime == -1

\* ------------------------------------------------------------ file content
\* A block of a token file: block idx of the len blocks of the record
\* {"token": <credentials of exchange tok>, "created_at": created_at}.
Cell(tok, idx, len, created_at) ==
    [tok |-> tok, idx |-> idx, len |-> len, created_at |-> created_at]

\* A file of the storage directory that holds JSON which is not an object.
ForeignValue == <<Cell(0, 1, 1, NoTime)>>
\* The unwritten block of a file written past its end.
Hole == Cell(0, 0, 0, NoTime)

\* The record json.dump writes (lines 72-77), block by block.
Record(tok, len, created_at) == [i \in 1..len |-> Cell(tok, i, len, created_at)]

WellShaped(c) ==
    /\ Len(c) > 0
    /\ \A i \in 1..Len(c) : c[i].idx = i /\ c[i].tok > 0 /\ c[i].len = Len(c)

Complete(c) == WellShaped(c) /\ \A i \in 1..Len(c) : c[i].tok = c[1].tok

\* json.load(f) (line 201): the outcomes it may have on the content c.  A
\* file made of the blocks of several records of one length may or may not
\* parse; anything else that is no complete record does not.
JsonLoad(c) ==
    IF c = ForeignValue THEN {[kind |-> "value", created_at |-> NoTime]}
    ELSE IF Complete(c)
        THEN {[kind |-> "object", created_at |-> c[1].created_at]}
    ELSE IF WellShaped(c)
        THEN {[kind |-> "object", created_at |-> c[Len(c)].created_at],
              [kind |-> "error", created_at |-> NoTime]}
    ELSE {[kind |-> "error", created_at |-> NoTime]}

\* open(token_path, "r+"): the content stays.
OpenKeep(content) == content

\* open(token_path, "w") (line 76): the file is created or truncated.
OpenForWrite(content) == <<>>

\* A write of the blocks data at the offset off of the content c.
WriteAt(c, off, data) ==
    [i \in 1..(IF Len(c) > off + Len(data) THEN Len(c) ELSE off + Len(data)) |->
        IF i > off /\ i <= off + Len(data) THEN data[i - off]
        ELSE IF i <= Len(c) THEN c[i]
        ELSE Hole]

PutFile(fs, path, content) ==
    [p \in DOMAIN fs \cup {path} |-> IF p = path THEN content ELSE fs[p]]

\* ------------------------------------------------------------------- state
Idle ==
    [pc |-> "idle", code |-> NONE, error |-> NONE, start |-> 0, tok |-> 0,
     len |-> 0, created_at |-> NoTime, email |-> <<>>, off |-> 0,
     changed |-> FALSE, log |-> <<>>, status |-> 0, body |-> "", msg |-> ""]

NoResp ==
    [ep |-> "", status |-> 0, user_id |-> <<>>, has_token |-> FALSE,
     created_at |-> NoTime, message |-> "", found |-> ""]

\* os.makedirs(TOKEN_STORAGE_DIR, exist_ok=True) (line 42): the directory is
\* new, or already there with a file this server did not write.
InitFiles == {<<>>, (GetTokenPath(EmailC) :> ForeignValue)}

Init ==
    /\ files \in InitFiles
    /\ now = 0
    /\ nextTok = 1
    /\ req = [w \in Workers |-> Idle]
    /\ succeeded = <<>>
    /\ resp = NoResp
    /\ uid = <<>>
    /\ savePath = <<>>
    /\ getPath = <<>>

InFlight(w) == req[w].pc \notin {"idle", "done"}

\* A worker takes a request when it has none in hand.  One server process
\* (serial) has one event loop, worker 1, which runs the coroutine
\* auth_callback, which never awaits, to its end before the next one.
CanStart(w, serial) ==
    /\ ~InFlight(w)
    /\ serial => w = 1

\* return HTMLResponse(content=..., status_code=status): the request r ends.
Respond(r, status, body, msg) ==
    [r EXCEPT !.pc = "done", !.status = status, !.body = body, !.msg = msg]

Invoke(r, stage) == [r EXCEPT !.log = Append(@, stage)]

NewRequest(code, error) ==
    [Idle EXCEPT !.code = code, !.error = error, !.start = now]

\* ------------------------------------------------- auth_callback (100-171)
\* Lines 102-113: the error parameter is reported back.
AuthCallbackError(w, code, error, serial) ==
    /\ CanStart(w, serial)
    /\ Truthy(error)
    /\ req' = [req EXCEPT ![w] =
                  Respond(NewRequest(code, error), 400, "error_page", error)]
    /\ UNCHANGED <<files, now, nextTok, succeeded, resp, uid, savePath, getPath>>

\* The code check ahead of the error check.
AuthCallbackNoCodeFirst(w, code, error, serial) ==
    /\ CanStart(w, serial)
    /\ ~Truthy(code)
    /\ req' = [req EXCEPT ![w] =
                  Respond(NewRequest(code, error), 400, "no_code", "")]
    /\ UNCHANGED <<files, now, nextTok, succeeded, resp, uid, savePath, getPath>>

\* Lines 115-116: no authorization code.
AuthCallbackNoCode(w, code, error, serial) ==
    /\ CanStart(w, serial)
    /\ ~Truthy(error)
    /\ ~Truthy(code)
    /\ req' = [req EXCEPT ![w] =
                  Respond(NewRequest(code, error), 400, "no_code", "")]
    /\ UNCHANGED <<files, now, nextTok, succeeded, resp, uid, savePath, getPath>>

\* The try block entered without the code check.
AuthCallbackTryUnchecked(w, code, error, serial) ==
    /\ CanStart(w, serial)
    /\ ~Truthy(error)
    /\ req' = [req EXCEPT ![w] = [NewRequest(code, error) EXCEPT !.pc = "flow"]]
    /\ UNCHANGED <<files, now, nextTok, succeeded, resp, uid, savePath, getPath>>

\* Line 118: the request enters the try block.
AuthCallbackTry(w, code, error, serial) ==
    /\ CanStart(w, serial)
    /\ ~Truthy(error)
    /\ Truthy(code)
    /\ req' = [req EXCEPT ![w] = [NewRequest(code, error) EXCEPT !.pc = "flow"]]
    /\ UNCHANGED <<files, now, nextTok, succeeded, resp, uid, savePath, getPath>>

\* A failed stage sends the request through the stages again.
RetryOnException(r, stage) == [r EXCEPT !.pc = "flow"]

\* Lines 159-171: an exception of the stage ends the request with the
\* failure page, str(e) in it.
OnException(r, stage) == Respond(r, 500, "failure_page", stage)

\* Line 120, get_flow (56-66).
GetFlow(w, ok) ==
    /\ req[w].pc = "flow"
    /\ req' = [req EXCEPT ![w] =
                  IF ok THEN [Invoke(@, "flow") EXCEPT !.pc = "exchange"]
                  ELSE OnException(Invoke(@, "flow"), "flow")]
    /\ UNCHANGED <<files, now, nextTok, succeeded, resp, uid, savePath, getPath>>

\* Lines 123-124: flow.fetch_token(code=code); the provider accepts the code
\* and issues credentials whose record takes len blocks, or refuses it.
FetchToken(w, ok, len) ==
    /\ req[w].pc = "exchange"
    /\ IF ok
       THEN /\ nextTok <= MaxReqs
            /\ nextTok' = nextTok + 1
            /\ req' = [req EXCEPT ![w] =
                          [Invoke(@, "exchange") EXCEPT !.pc = "identity",
                                                        !.tok = nextTok,
                                                        !.len = len]]
       ELSE /\ len = 1
            /\ req' = [req EXCEPT ![w] =
                          OnException(Invoke(@, "exchange"), "exchange")]
            /\ UNCHANGED nextTok
    /\ UNCHANGED <<files, now, succeeded, resp, uid, savePath, getPath>>

\* Lines 127-131, get_user_info (82-91): the lookup fails, or answers with
\* an email, or without one (email = <<>>).
GetUserInfo(w, ok, email) ==
    /\ req[w].pc = "identity"
    /\ req' = [req EXCEPT ![w] =
                  IF ~ok THEN OnException(Invoke(@, "identity"), "identity")
                  ELSE IF email = <<>>
                      THEN Respond(Invoke(@, "identity"), 400, "no_email", "")
                  ELSE [Invoke(@, "identity") EXCEPT !.pc = "save", !.email = email]]
    /\ ~ok => email = <<>>
    /\ UNCHANGED <<files, now, nextTok, succeeded, resp, uid, savePath, getPath>>

\* Lines 134, 71-76: save_token builds the path and the record, stamped with
\* datetime.now(), and opens the file for writing; open may raise OSError.
SaveTokenOpen(w, ok) ==
    /\ req[w].pc = "save"
    /\ IF ok
       THEN /\ files' = PutFile(files, SaveTokenPath(req[w].email),
                                IF SaveTokenPath(req[w].email) \in DOMAIN files
                                THEN OpenForWrite(files[SaveTokenPath(req[w].email)])
                                ELSE <<>>)
            /\ req' = [req EXCEPT ![w] =
                          [Invoke(@, "persist") EXCEPT !.pc = "write", !.off = 0,
                                                       !.created_at = now,
                                                       !.changed = (files' # files)]]
       ELSE /\ req' = [req EXCEPT ![w] =
                          OnException([Invoke(@, "persist") EXCEPT !.created_at = now],
                                      "persist")]
            /\ UNCHANGED files
    /\ UNCHANGED <<now, nextTok, succeeded, resp, uid, savePath, getPath>>

\* The blocks of w's record from its offset on: k of them.
NextBlocks(w, k) ==
    SubSeq(Record(req[w].tok, req[w].len, req[w].created_at),
           req[w].off + 1, req[w].off + k)

\* Line 77: json.dump fills the file's buffer; each time the buffer is full k
\* blocks reach the disk at the writer's own offset, the rest stays buffered.
SaveTokenWrite(w, k) ==
    /\ req[w].pc = "write"
    /\ req[w].off + k < req[w].len
    /\ files' = PutFile(files, SaveTokenPath(req[w].email),
                        WriteAt(files[SaveTokenPath(req[w].email)], req[w].off,
                                NextBlocks(w, k)))
    /\ req' = [req EXCEPT ![w].off = @ + k, ![w].changed = TRUE]
    /\ UNCHANGED <<now, nextTok, succeeded, resp, uid, savePath, getPath>>

\* Lines 77, 79-80: a write, a flush or the close raises OSError.
SaveTokenFail(w) ==
    /\ req[w].pc = "write"
    /\ req' = [req EXCEPT ![w] = OnException(@, "persist")]
    /\ UNCHANGED <<files, now, nextTok, succeeded, resp, uid, savePath, getPath>>

\* Lines 76-78, 137-157: leaving the with block flushes what is buffered, the
\* last blocks of the record, and closes the file; the success page is
\* returned.  succeeded lists such callbacks in order.
SaveTokenClose(w) ==
    /\ req[w].pc = "write"
    /\ files' = PutFile(files, SaveTokenPath(req[w].email),
                        WriteAt(files[SaveTokenPath(req[w].email)], req[w].off,
                                NextBlocks(w, req[w].len - req[w].off)))
    /\ req' = [req EXCEPT ![w] =
                  Respond([@ EXCEPT !.off = req[w].len, !.changed = TRUE],
                          200, "success_page", "")]
    /\ succeeded' = Append(succeeded, [tok |-> req[w].tok, email |-> req[w].email])
    /\ UNCHANGED <<now, nextTok, resp, uid, savePath, getPath>>

\* ---------------------------------------------- the synchronous endpoints
\* The exception leaves the handler: the framework answers 500.
GetTokenRaises(user_id, found) ==
    [ep |-> "token", status |-> 500, user_id |-> user_id, has_token |-> FALSE,
     created_at |-> NoTime, message |-> "Internal Server Error", found |-> found]

\* Lines 209-210: an exception while reading is reported, not raised.
GetTokenOnException(user_id, found) ==
    [ep |-> "token", status |-> 200, user_id |-> user_id, has_token |-> FALSE,
     created_at |-> NoTime, message |-> "Error reading token", found |-> found]

\* get_token (191-210).  ioerr: open or read raises OSError.  found is what
\* the handler met: no file, an I/O error, or the kind of content loaded.
GetToken(user_id, ioerr) ==
    /\ resp = NoResp
    /\ IF GetTokenPath(user_id) \notin DOMAIN files
       THEN resp' = [ep |-> "token", status |-> 200, user_id |-> user_id,
                     has_token |-> FALSE, created_at |-> NoTime,
                     message |-> "No token found for user", found |-> "missing"]
       ELSE IF ioerr
       THEN resp' = GetTokenOnException(user_id, "ioerror")
       ELSE \E r \in JsonLoad(files[GetTokenPath(user_id)]) :
               resp' = IF r.kind = "object"
                       THEN [ep |-> "token", status |-> 200, user_id |-> user_id,
                             has_token |-> TRUE, created_at |-> r.created_at,
                             message |-> "Token found for user", found |-> "object"]
                       ELSE GetTokenOnException(user_id, r.kind)
    /\ UNCHANGED <<files, now, nextTok, req, succeeded, uid, savePath, getPath>>

\* read_root (94-97).
ReadRoot ==
    /\ resp = NoResp
    /\ resp' = [NoResp EXCEPT !.ep = "root", !.status = 200,
                              !.message = "TaskIQ Auth Server is running"]
    /\ UNCHANGED <<files, now, nextTok, req, succeeded, uid, savePath, getPath>>

\* generate_auth_url (173-189): the URL, or 500 when get_flow raises.
GenerateAuthUrl(email, ok) ==
    /\ resp = NoResp
    /\ resp' = [NoResp EXCEPT !.ep = "generate-auth-url",
                              !.status = IF ok THEN 200 ELSE 500,
                              !.user_id = email]
    /\ UNCHANGED <<files, now, nextTok, req, succeeded, uid, savePath, getPath>>

\* The response of a synchronous endpoint is sent.
Deliver ==
    /\ resp # NoResp
    /\ resp' = NoResp
    /\ UNCHANGED <<files, now, nextTok, req, succeeded, uid, savePath, getPath>>

\* Time passes (datetime.now(), line 74).
Tick ==
    /\ now < MaxTime
    /\ now' = now + 1
    /\ UNCHANGED <<files, nextTok, req, succeeded, resp, uid, savePath, getPath>>

\* The steps of a callback request once it is in the try block.
CallbackSteps ==
    \/ \E w \in Workers, ok \in BOOLEAN : GetFlow(w, ok)
    \/ \E w \in Workers, ok \in BOOLEAN, len \in 1..MaxRecLen : FetchToken(w, ok, len)
    \/ \E w \in Workers, ok \in BOOLEAN, email \in Emails \cup {<<>>} :
          GetUserInfo(w, ok, email)
    \/ \E w \in Workers, ok \in BOOLEAN : SaveTokenOpen(w, ok)
    \/ \E w \in Workers, k \in 1..MaxRecLen : SaveTokenWrite(w, k)
    \/ \E w \in Workers : SaveTokenFail(w)
    \/ \E w \in Workers : SaveTokenClose(w)

\* One server process: the event loop runs the callbacks one at a time, the
\* thread pool runs the synchronous endpoints beside it.
Next ==
    \/ \E w \in Workers, code \in Codes, error \in Errors :
          \/ AuthCallbackError(w, code, error, TRUE)
          \/ AuthCallbackNoCode(w, code, error, TRUE)
          \/ AuthCallbackTry(w, code, error, TRUE)
    \/ CallbackSteps
    \/ \E u \in UserIds, ioerr \in BOOLEAN : GetToken(u, ioerr)
    \/ ReadRoot
    \/ \E email \in Emails, ok \in BOOLEAN : GenerateAuthUrl(email, ok)
    \/ Deliver
    \/ Tick

Spec == Init /\ [][Next]_vars

\* Several server processes over one storage directory: their callbacks
\* overlap, the file system is all they share.
NextConc ==
    \/ \E w \in Workers, code \in Codes, error \in Errors :
          AuthCallbackTry(w, code, error, FALSE)
    \/ CallbackSteps
    \/ Tick

SpecConc == Init /\ [][NextConc]_vars

\* ------------------------------------------- the file name of an identifier
\* save_token (line 71) and get_token (line 194) each build the path of the
\* identifier uid; here uid ranges over the strings of Chars.
InitNames ==
    /\ files = <<>>
    /\ now = 0
    /\ nextTok = 1
    /\ req = [w \in Workers |-> Idle]
    /\ succeeded = <<>>
    /\ resp = NoResp
    /\ uid \in Strings
    /\ savePath = <<>>
    /\ getPath = <<>>

SaveTokenName ==
    /\ savePath = <<>>
    /\ savePath' = SaveTokenPath(uid)
    /\ UNCHANGED <<files, now, nextTok, req, succeeded, resp, uid, getPath>>

GetTokenName ==
    /\ getPath = <<>>
    /\ getPath' = GetTokenPath(uid)
    /\ UNCHANGED <<files, now, nextTok, req, succeeded, resp, uid, savePath>>

NextNames == SaveTokenName \/ GetTokenName

SpecNames == InitNames /\ [][NextNames]_vars

\* ============================================================== properties
AtCount(s, n) == Cardinality({j \in 1..n : s[j] = "@"})

\* The position in the file name of the i-th character of the identifier.
NamePos(s, i) == i + 3 * AtCount(s, i - 1)

DirPrefix == <<".", "/", "t", "o", "k", "e", "n", "s", "/">>

\* path is, inside the storage directory, the identifier u with each "@"
\* turned into "_at_", then ".json".
IsTokenFileOf(path, u) ==
    /\ Len(path) = Len(DirPrefix) + Len(u) + 3 * AtCount(u, Len(u)) + 5
    /\ SubSeq(path, 1, Len(DirPrefix)) = DirPrefix
    /\ SubSeq(path, Len(path) - 4, Len(path)) = <<".", "j", "s", "o", "n">>
    /\ \A i \in 1..Len(u) :
          LET q == Len(DirPrefix) + NamePos(u, i)
          IN  IF u[i] = "@"
              THEN SubSeq(path, q, q + 3) = <<"_", "a", "t", "_">>
              ELSE path[q] = u[i]
    /\ \A j \in 1..Len(path) : path[j] # "@"

Started(w) == req[w].pc # "idle"
Done(w) == req[w].pc = "done"

\* The store holds one file for the email of w's request, and it is the whole
\* record of w's exchange, stamped no earlier than the request started.
HoldsRecordOf(w) ==
    LET own == {p \in DOMAIN files : IsTokenFileOf(p, req[w].email)}
    IN  /\ Cardinality(own) = 1
        /\ \A p \in own :
              /\ Complete(files[p])
              /\ files[p][1].tok = req[w].tok
              /\ Len(files[p]) = req[w].len
              /\ files[p][1].created_at >= req[w].start
              /\ files[p][1].created_at <= now

C2_LastWriteWins ==
    /\ \A w \in Workers :
          (Done(w) /\ req[w].status = 200) =>
              /\ SaveTokenPath(req[w].email) \in DOMAIN files
              /\ files[SaveTokenPath(req[w].email)]
                     = Record(req[w].tok, req[w].len, req[w].created_at)
    /\ \A p \in DOMAIN files :
          /\ \A i \in 1..Len(files[p]) :
                files[p][i].tok = files[p][1].tok /\ files[p][i].idx = i
          /\ \E u \in UserIds : IsTokenFileOf(p, u)
          /\ \A q \in DOMAIN files :
                (\E u \in UserIds : IsTokenFileOf(p, u) /\ IsTokenFileOf(q, u)) => p = q

C2_Witness ==
    \E w \in Workers :
        /\ Done(w)
        /\ req[w].status = 200
        /\ Len(succeeded) >= 2
        /\ succeeded[Len(succeeded)].tok = req[w].tok
        /\ succeeded[Len(succeeded) - 1].email = req[w].email
        /\ succeeded[Len(succeeded) - 1].tok # req[w].tok
        /\ files[SaveTokenPath(req[w].email)][1].tok = req[w].tok

ResolvedTo(u) == \E i \in 1..Len(succeeded) : succeeded[i].email = u

\* C3 as stated: GET /token/{u}, asked while no callback is under way,
\* answers has_token = false as long as no successful callback resolved to
\* u, and after one it answers has_token = true with the created_at stored
\* in u's file.
C3_Original ==
    [][(resp = NoResp /\ resp'.ep = "token" /\ \A w \in Workers : ~InFlight(w)) =>
          LET u == resp'.user_id
              p == GetTokenPath(resp'.user_id)
          IN  /\ ~ResolvedTo(u) => ~resp'.has_token
              /\ ResolvedTo(u) =>
                    /\ resp'.has_token
                    /\ p \in DOMAIN files
                    /\ Len(files[p]) > 0
                    /\ resp'.created_at = files[p][Len(files[p])].created_at]_vars

\* C4: a callback request with neither code nor error ends with HTTP 400
\* having built no flow, made no exchange or identity call, written no file.
C4_NoCode ==
    \A w \in Workers :
        (Started(w) /\ req[w].code = NONE /\ req[w].error = NONE) =>
            /\ Done(w)
            /\ req[w].status = 400
            /\ req[w].log = <<>>
            /\ req[w].tok = 0
            /\ ~req[w].changed

C4_Witness ==
    \E w \in Workers :
        /\ Done(w)
        /\ req[w].code = NONE
        /\ req[w].error = NONE
        /\ req[w].body = "no_code"

\* No stage ran for the request of w and it wrote nothing; once answered, the
\* answer is 400 and echoes the error parameter (every body holds the empty
\* string).
ErrorEchoed(w) ==
    /\ req[w].log = <<>>
    /\ req[w].tok = 0
    /\ ~req[w].changed
    /\ Done(w) =>
          /\ req[w].status = 400
          /\ req[w].error # "" =>
                (req[w].body = "error_page" /\ req[w].msg = req[w].error)

\* C5 as stated: whenever the error parameter is present the answer is HTTP
\* 400 with its value echoed, code or no code, and no exchange, identity
\* lookup or store write happens.
C5_Original ==
    \A w \in Workers : (Started(w) /\ req[w].error # NONE) => ErrorEchoed(w)

\* C5, amended: the same whenever the error parameter is present and not
\* empty; the request is answered at once.
C5_NonEmptyError ==
    \A w \in Workers :
        (Started(w) /\ Truthy(req[w].error)) => (Done(w) /\ ErrorEchoed(w))

C5_Witness ==
    \E w \in Workers :
        /\ Done(w)
        /\ req[w].error = "access_denied"
        /\ req[w].code = "code"
        /\ req[w].msg = "access_denied"

\* C6: the file name save_token and get_token derive from an identifier is
\* the identifier with every "@" replaced by "_at_", followed by ".json";
\* no "@" is left in it, and the two derive the same name.
C6_FileName ==
    /\ savePath # <<>> => IsTokenFileOf(savePath, uid)
    /\ getPath # <<>> => IsTokenFileOf(getPath, uid)
    /\ (savePath # <<>> /\ getPath # <<>>) => savePath = getPath

C6_Witness ==
    /\ AtCount(uid, Len(uid)) >= 2
    /\ savePath # <<>>
    /\ getPath # <<>>

Stages == <<"flow", "exchange", "identity", "persist">>

IsPrefix(a, b) == Len(a) <= Len(b) /\ a = SubSeq(b, 1, Len(a))

\* C7: a callback request with a code and no error runs the stages in order,
\* each at most once; a failed stage ends it with the failure page, that
\* stage's message and HTTP 500 (HTTP 400 when the identity answer has no
\* email) and nothing runs after it; the success page comes with HTTP 200
\* only after all stages.
C7_Stages ==
    \A w \in Workers :
        (Started(w) /\ Truthy(req[w].code) /\ ~Truthy(req[w].error)) =>
            /\ IsPrefix(req[w].log, Stages)
            /\ ~Done(w) => req[w].status = 0
            /\ Done(w) =>
                  \/ /\ req[w].status = 500
                     /\ req[w].body = "failure_page"
                     /\ req[w].log # <<>>
                     /\ req[w].msg = req[w].log[Len(req[w].log)]
                  \/ /\ req[w].status = 400
                     /\ req[w].body = "no_email"
                     /\ req[w].log = SubSeq(Stages, 1, 3)
                     /\ req[w].email = <<>>
                  \/ /\ req[w].status = 200
                     /\ req[w].body = "success_page"
                     /\ req[w].log = Stages
                     /\ req[w].tok > 0
                     /\ req[w].email # <<>>
                     /\ req[w].off = req[w].len

C7_Witness ==
    \E w \in Workers :
        /\ Done(w)
        /\ req[w].status = 500
        /\ req[w].msg = "identity"
        /\ req[w].log = SubSeq(Stages, 1, 3)

\* C8 as stated: when two callbacks for one identifier have both completed
\* their writes, in whatever order their file operations interleaved, the
\* file holds the whole record of the one that completed last.
C8_Original ==
    \A w \in Workers :
        ( /\ \A v \in Workers : Done(v) /\ req[v].status = 200
          /\ \A v \in Workers : req[v].email = req[w].email
          /\ succeeded[Len(succeeded)].tok = req[w].tok ) =>
            files[SaveTokenPath(req[w].email)]
                = Record(req[w].tok, req[w].len, req[w].created_at)

\* C9: GET /token/{user_id} always answers 200; it answers has_token =
\* false with a message when the file is missing, cannot be read or does not
\* hold one whole record; and it leaves the store as it is.
C9_NeverFails ==
    [][(resp = NoResp /\ resp'.ep = "token") =>
          LET p == GetTokenPath(resp'.user_id)
          IN  /\ files' = files
              /\ resp'.status = 200
              /\ (p \notin DOMAIN files \/ resp'.found = "ioerror"
                    \/ ~Complete(files[p])) =>
                    /\ ~resp'.has_token
                    /\ resp'.message \in {"No token found for user",
                                          "Error reading token"}]_vars

\* The lookup met a file that is there and does not parse.
C9_Witness ==
    /\ resp.ep = "token"
    /\ resp.found = "error"
    /\ resp.status = 200
    /\ GetTokenPath(resp.user_id) \in DOMAIN files

\* C10 as stated: a callback request that ends in an error response leaves
\* the existence and the content of every token file as they were.
C10_Original ==
    \A w \in Workers : (Done(w) /\ req[w].status # 200) => ~req[w].changed

====
